---------------------------- MODULE Spec2Model ----------------------------
(***************************************************************************)
(* A model of the sunlight overlay of the world-clock dashboard:           *)
(* src/src/WorldMapWithSunlight.jsx.  The module follows the file from top *)
(* to bottom: getSubsolarPoint, drawSunlightMask, then the mount effect of *)
(* WorldMapWithSunlight and the cleanup it returns.                        *)
(*                                                                         *)
(* Angles are integers in hundredths of a degree (cdeg); the values of     *)
(* sin and cos are integers scaled by TrigScale.  An instant is a number   *)
(* of minutes relative to the J2000 epoch (negative before it).            *)
(***************************************************************************)
EXTENDS Integers, Sequences, FiniteSets, TLC

(***************************************************************************)
(* Bounds of the model.                                                    *)
(***************************************************************************)
\* Largest canvas client width and height (pixels) the host lays out.
MaxW == 3
MaxH == 3
\* Map views (centre and zoom) the host can move the map to: 0..MaxView.
MaxView == 1
\* The wall clock takes the values 0..MaxClock (in steps of ClockStep minutes).
MaxClock == 2
\* Number of times the effect of WorldMapWithSunlight runs (mounts).
MaxInst == 2
\* Number of times one cleanup closure is called.
MaxDetach == 2

\* Minutes between two values of the model's wall clock: six hours.
ClockStep == 6 * 60
\* The instant of clock value 0, in minutes relative to J2000: 2000-01-01T00:00Z.
ClockBase == -(12 * 60)

(***************************************************************************)
(* Math.sin, Math.cos, Math.asin, Math.atan2 on degrees.                   *)
(***************************************************************************)
TrigScale == 10000

\* 10000 * sin(k degrees), k = 0..90
SinTab ==
  << 0, 175, 349, 523, 698, 872, 1045, 1219, 1392, 1564,
     1736, 1908, 2079, 2250, 2419, 2588, 2756, 2924, 3090, 3256,
     3420, 3584, 3746, 3907, 4067, 4226, 4384, 4540, 4695, 4848,
     5000, 5150, 5299, 5446, 5592, 5736, 5878, 6018, 6157, 6293,
     6428, 6561, 6691, 6820, 6947, 7071, 7193, 7314, 7431, 7547,
     7660, 7771, 7880, 7986, 8090, 8192, 8290, 8387, 8480, 8572,
     8660, 8746, 8829, 8910, 8988, 9063, 9135, 9205, 9272, 9336,
     9397, 9455, 9511, 9563, 9613, 9659, 9703, 9744, 9781, 9816,
     9848, 9877, 9903, 9925, 9945, 9962, 9976, 9986, 9994, 9998,
     10000 >>

\* a / b rounded to the nearest integer (b > 0)
DivR(a, b) == (2 * a + b) \div (2 * b)

\* sin of a first-quadrant angle a (cdeg, 0..9000): table and linear interpolation
SinQ(a) ==
  LET k == a \div 100
      f == a % 100
  IN  IF f = 0 THEN SinTab[k + 1]
      ELSE SinTab[k + 1] + DivR((SinTab[k + 2] - SinTab[k + 1]) * f, 100)

\* Math.sin(a * rad), a in cdeg
SinC(a) ==
  LET r == a % 36000
  IN  IF r <= 9000 THEN SinQ(r)
      ELSE IF r <= 18000 THEN SinQ(18000 - r)
      ELSE IF r <= 27000 THEN -SinQ(r - 18000)
      ELSE -SinQ(36000 - r)

\* Math.cos(a * rad), a in cdeg
CosC(a) == SinC(a + 9000)

Abs(a) == IF a < 0 THEN -a ELSE a

\* The sign of what Math.cos returns at an odd number of quarter turns,
\* where CosC is 0: a * rad is a double, never the zero of the cosine, and
\* Math.cos(90 * rad) = 6.1e-17, Math.cos(270 * rad) = -1.8e-16, the same for
\* -90 and -270 (and for 450 and 630).  With an angle lon - subLon this is
\* the sign when subLon is 0, so that lon * rad is rounded once.
CosResidue(a) ==
  IF Abs(a) % 36000 = 9000 THEN 1
  ELSE IF Abs(a) % 36000 = 27000 THEN -1
  ELSE 0

Sign(v) == IF v > 0 THEN 1 ELSE IF v < 0 THEN -1 ELSE 0

\* the sign of Math.cos(a * rad), which is never 0
CosSign(a) == IF CosC(a) # 0 THEN Sign(CosC(a)) ELSE CosResidue(a)

\* largest a in lo..hi with SinQ(a) <= v (SinQ(lo) <= v)
RECURSIVE AsinSearch(_, _, _)
AsinSearch(v, lo, hi) ==
  IF lo >= hi THEN lo
  ELSE LET mid == (lo + hi + 1) \div 2
       IN  IF SinQ(mid) <= v THEN AsinSearch(v, mid, hi)
           ELSE AsinSearch(v, lo, mid - 1)

\* Math.asin(v / TrigScale) / rad, in cdeg, -9000..9000
AsinC(v) ==
  IF v >= 0 THEN AsinSearch(v, 0, 9000) ELSE -AsinSearch(-v, 0, 9000)

\* largest a in lo..hi with tan(a) <= p / q (0 <= p <= q, q > 0)
RECURSIVE AtanSearch(_, _, _, _)
AtanSearch(p, q, lo, hi) ==
  IF lo >= hi THEN lo
  ELSE LET mid == (lo + hi + 1) \div 2
       IN  IF SinQ(mid) * q <= p * SinQ(9000 - mid) THEN AtanSearch(p, q, mid, hi)
           ELSE AtanSearch(p, q, lo, mid - 1)

\* Math.atan2(y, x) / rad, in cdeg, -18000..18000
\* atan2 of a point (ax, ay) of the first quadrant
AtanQ(ay, ax) ==
  IF ax = 0 /\ ay = 0 THEN 0
  ELSE IF ay <= ax THEN AtanSearch(ay, ax, 0, 4500)
  ELSE 9000 - AtanSearch(ax, ay, 0, 4500)

Quadrant(y, x, q1) ==
  IF x >= 0 THEN (IF y >= 0 THEN q1 ELSE -q1)
  ELSE (IF y >= 0 THEN 18000 - q1 ELSE q1 - 18000)

Atan2C(y, x) == Quadrant(y, x, AtanQ(Abs(y), Abs(x)))

\* JavaScript's a % m: the remainder has the sign of the dividend
JsMod(a, m) == IF a >= 0 THEN a % m ELSE -((-a) % m)

(***************************************************************************)
(* getSubsolarPoint(date): lines 12-50.  t is date.getTime() - J2000 in    *)
(* minutes, so d = t / 1440 days; days and rem split it into whole days    *)
(* and the minutes left, so that the products stay small.                  *)
(***************************************************************************)
DaysOf(t) == t \div 1440
RemOf(t) == t % 1440

\* (280.460 + 0.9856474 * d) % 360, line 20
MeanLongitude(t) ==
  JsMod(28046 + 98 * DaysOf(t) + DivR(56474 * DaysOf(t), 100000)
          + DivR(68448 * RemOf(t), 1000000), 36000)

\* (357.528 + 0.9856003 * d) % 360, line 21
MeanAnomaly(t) ==
  JsMod(35753 + 98 * DaysOf(t) + DivR(56003 * DaysOf(t), 100000)
          + DivR(68444 * RemOf(t), 1000000), 36000)

\* Variant: the equation of the centre is added to the mean anomaly g, not
\* to the mean longitude L.
EclipticLongitudeFromAnomaly(L, g) ==
  g + DivR(1915 * SinC(g), 10 * TrigScale) + DivR(2 * SinC(2 * g), TrigScale)

\* L + 1.915 * sin(g) + 0.020 * sin(2g), line 24
EclipticLongitude(L, g) ==
  L + DivR(1915 * SinC(g), 10 * TrigScale) + DivR(2 * SinC(2 * g), TrigScale)

\* 23.439 - 0.0000004 * d, line 27
Obliquity(t) == DivR(234390 - DivR(4 * DaysOf(t), 1000), 100)

\* Variant: twice asin(sin(lambda)), with no obliquity in it.
DeclinationDoubled(epsilon, lambda) ==
  2 * AsinC(SinC(lambda))

\* asin(sin(epsilon) * sin(lambda)), lines 30-31
Declination(epsilon, lambda) ==
  AsinC(DivR(SinC(epsilon) * SinC(lambda), TrigScale))

\* Variant: the result of atan2 is used as it is, without line 37.
NonNegativeSkipped(ra) == ra

\* atan2(cos(epsilon) * sin(lambda), cos(lambda)), made non-negative: lines 34-37
NonNegative(ra) == IF ra < 0 THEN ra + 36000 ELSE ra

RightAscension(epsilon, lambda) ==
  NonNegative(Atan2C(DivR(CosC(epsilon) * SinC(lambda), TrigScale),
                     CosC(lambda)))

\* (280.46061837 + 360.98564736629 * d) % 360, line 40
GMST(t) ==
  JsMod(28046 + 36098 * DaysOf(t) + DivR(56474 * DaysOf(t), 100000)
          + 25 * RemOf(t) + DivR(68448 * RemOf(t), 1000000), 36000)

\* the two corrections of lines 44 and 45
NormalizeLow(lon) == IF lon < -18000 THEN lon + 36000 ELSE lon
NormalizeLon(lon) == NormalizeLow(IF lon > 18000 THEN lon - 36000 ELSE lon)

\* (ra - GMST) % 360 and its corrections, lines 43-45
SubsolarLon(ra, gmst) == NormalizeLon(JsMod(ra - gmst, 36000))

\* lines 29-49, from epsilon, lambda and GMST
SubsolarOf(epsilon, lambda, gmst) ==
  [lat |-> Declination(epsilon, lambda),
   lon |-> SubsolarLon(RightAscension(epsilon, lambda), gmst)]

getSubsolarPoint(t) ==
  SubsolarOf(Obliquity(t), EclipticLongitude(MeanLongitude(t), MeanAnomaly(t)),
             GMST(t))


(***************************************************************************)
(* drawSunlightMask(canvas, map, subsolar): lines 53-96.  What the call    *)
(* does to the canvas and to the map is kept as the sequence of the        *)
(* operations it performs, in order; data is imageData.data.               *)
(***************************************************************************)
Op(name, a, b) == [op |-> name, a |-> a, b |-> b]

\* const step = 2, line 70
step == 2
\* the alpha of a night pixel, line 81
NightAlpha == 90

\* map.layerPointToLatLng(L.point(x, y)) in map view v, line 73: the host's
\* inverse projection, here one of MaxView + 1 affine ones (cdeg)
layerPointToLatLng(v, x, y) ==
  [lat |-> 3000 * y, lng |-> 9000 * (x + v) - 18000]

\* A sum sinsin + coscoscos of line 78 in half units: when the sines give
\* exactly 0 (one of the latitudes is 0) and the product of the cosines is
\* below the unit, the sum is that product, of the sign coscoscosSign.
WithResidue(sinsin, coscoscos, coscoscosSign) ==
  2 * (sinsin + coscoscos)
    + (IF sinsin = 0 /\ coscoscos = 0 THEN coscoscosSign ELSE 0)

\* Variant: the two longitudes are added, cos(lon + subLon).
coscSumOfLongitudes(latlng, subsolar) ==
  WithResidue(SinC(latlng.lat) * SinC(subsolar.lat),
              DivR(CosC(latlng.lat) * CosC(subsolar.lat), TrigScale)
                * CosC(latlng.lng + subsolar.lon),
              CosSign(latlng.lat) * CosSign(subsolar.lat)
                * CosSign(latlng.lng + subsolar.lon))

\* cosc of line 78, scaled by 2 * TrigScale * TrigScale
cosc(latlng, subsolar) ==
  WithResidue(SinC(latlng.lat) * SinC(subsolar.lat),
              DivR(CosC(latlng.lat) * CosC(subsolar.lat), TrigScale)
                * CosC(latlng.lng - subsolar.lon),
              CosSign(latlng.lat) * CosSign(subsolar.lat)
                * CosSign(latlng.lng - subsolar.lon))

\* Variant: the horizon counts as day, cosc >= 0.
isDayOrHorizon(latlng, subsolar) == cosc(latlng, subsolar) >= 0

\* const isDay = cosc > 0, line 79
isDay(latlng, subsolar) == cosc(latlng, subsolar) > 0

\* Variant: the night side is shaded by how far below the horizon the sun is.
alphaOfGraded(latlng, subsolar) ==
  IF isDay(latlng, subsolar) THEN 0
  ELSE DivR(NightAlpha * DivR(-cosc(latlng, subsolar), 2 * TrigScale), TrigScale)

\* const alpha = isDay ? 0 : 90, line 81
alphaOf(latlng, subsolar) == IF isDay(latlng, subsolar) THEN 0 ELSE NightAlpha

\* data[idx] = 0 (R, G, B) and data[idx + 3] = alpha, lines 85-89
WritePixel(width, px, py, alpha) ==
  LET idx == (py * width + px) * 4
  IN  << Op("set", idx, 0), Op("set", idx + 1, 0), Op("set", idx + 2, 0),
         Op("set", idx + 3, alpha) >>

\* Variant: the inner loop without its clamp, for (xx = 0; xx < step; xx++).
RECURSIVE LoopXXUnclamped(_, _, _, _, _, _)
LoopXXUnclamped(width, x, y, yy, xx, alpha) ==
  IF xx < step
  THEN WritePixel(width, x + xx, y + yy, alpha)
         \o LoopXXUnclamped(width, x, y, yy, xx + 1, alpha)
  ELSE << >>

\* for (let xx = 0; xx < step && x + xx < width; xx++), line 84
RECURSIVE LoopXX(_, _, _, _, _, _)
LoopXX(width, x, y, yy, xx, alpha) ==
  IF xx < step /\ x + xx < width
  THEN WritePixel(width, x + xx, y + yy, alpha)
         \o LoopXX(width, x, y, yy, xx + 1, alpha)
  ELSE << >>

\* for (let yy = 0; yy < step && y + yy < height; yy++), line 83
RECURSIVE LoopYY(_, _, _, _, _, _)
LoopYY(width, height, x, y, yy, alpha) ==
  IF yy < step /\ y + yy < height
  THEN LoopXX(width, x, y, yy, 0, alpha)
         \o LoopYY(width, height, x, y, yy + 1, alpha)
  ELSE << >>

\* Variant: the cell is classified by the pixel at its centre.
CellSampleCentre(width, height, v, subsolar, x, y) ==
  << Op("layerPointToLatLng", x, y) >>
    \o LoopYY(width, height, x, y, 0,
              alphaOf(layerPointToLatLng(v, x + step \div 2, y + step \div 2),
                      subsolar))

\* one sampled cell, lines 73-91
Cell(width, height, v, subsolar, x, y) ==
  << Op("layerPointToLatLng", x, y) >>
    \o LoopYY(width, height, x, y, 0,
              alphaOf(layerPointToLatLng(v, x, y), subsolar))

\* Variant: every pixel of a sampled row is projected, x++ in place of x += step.
RECURSIVE LoopXEveryPixel(_, _, _, _, _, _)
LoopXEveryPixel(width, height, v, subsolar, x, y) ==
  IF x < width
  THEN Cell(width, height, v, subsolar, x, y)
         \o LoopXEveryPixel(width, height, v, subsolar, x + 1, y)
  ELSE << >>

\* for (let x = 0; x < width; x += step), line 72
RECURSIVE LoopX(_, _, _, _, _, _)
LoopX(width, height, v, subsolar, x, y) ==
  IF x < width
  THEN Cell(width, height, v, subsolar, x, y)
         \o LoopX(width, height, v, subsolar, x + step, y)
  ELSE << >>

\* for (let y = 0; y < height; y += step), line 71
RECURSIVE LoopY(_, _, _, _, _)
LoopY(width, height, v, subsolar, y) ==
  IF y < height
  THEN LoopX(width, height, v, subsolar, 0, y)
         \o LoopY(width, height, v, subsolar, y + step)
  ELSE << >>

\* imageData.data once the writes among ops are done, in order, on the
\* zeroed array that createImageData(width, height) returns
DataAfter(ops, width, height) ==
  [k \in 1..(width * height * 4) |->
     LET W == {j \in 1..Len(ops) : ops[j].op = "set" /\ ops[j].a = k - 1}
     IN  IF W = {} THEN 0
         ELSE ops[CHOOSE j \in W : \A j2 \in W : j2 <= j].b]

\* ctx.createImageData(width, height), line 62: the canvas API throws an
\* IndexSizeError when one of the two is zero
CreateImageDataThrows(width, height) == width = 0 \/ height = 0

\* Variant: the client size is read and the canvas sized again after clearRect.
PrologueSizedTwice(width, height) ==
  << Op("size", width, height), Op("clearRect", width, height),
     Op("size", width, height) >>

\* lines 54-58: the canvas takes its client size and is cleared
Prologue(width, height) ==
  << Op("size", width, height), Op("clearRect", width, height) >>

\* lines 62-95, for a buffer that could be created: the fill, then the blit
\* Variant: the buffer is put on the canvas before the loops fill it.
BlitBeforeFill(width, height, fill) ==
  [threw |-> FALSE, width |-> width, height |-> height,
   ops |-> Prologue(width, height)
             \o << Op("createImageData", width, height),
                   Op("putImageData", 0, 0) >> \o fill,
   image |-> [k \in 1..(width * height * 4) |-> 0]]

Blit(width, height, fill) ==
  [threw |-> FALSE, width |-> width, height |-> height,
   ops |-> Prologue(width, height)
             \o << Op("createImageData", width, height) >> \o fill
             \o << Op("putImageData", 0, 0) >>,
   image |-> DataAfter(fill, width, height)]

FillAndBlit(width, height, v, subsolar) ==
  Blit(width, height, LoopY(width, height, v, subsolar, 0))

\* createImageData threw: lines 54-62 only
Thrown(width, height) ==
  [threw |-> TRUE, width |-> width, height |-> height,
   ops |-> Append(Prologue(width, height), Op("throw", width, height)),
   image |-> << >>]

\* Variant: the origin pixel is projected before the buffer is created.
drawSunlightMaskSampleFirst(clientWidth, clientHeight, v, subsolar) ==
  IF CreateImageDataThrows(clientWidth, clientHeight)
  THEN [Thrown(clientWidth, clientHeight) EXCEPT
          !.ops = Prologue(clientWidth, clientHeight)
                    \o << Op("layerPointToLatLng", 0, 0),
                          Op("throw", clientWidth, clientHeight) >>]
  ELSE FillAndBlit(clientWidth, clientHeight, v, subsolar)

\* Variant: the buffer keeps one size, 1 x 1, whatever the client size is.
drawSunlightMaskKeepSize(clientWidth, clientHeight, v, subsolar) ==
  IF CreateImageDataThrows(clientWidth, clientHeight)
  THEN Thrown(clientWidth, clientHeight)
  ELSE FillAndBlit(1, 1, v, subsolar)

\* width = canvas.width = canvas.clientWidth, and height likewise: lines 55-56
drawSunlightMask(clientWidth, clientHeight, v, subsolar) ==
  IF CreateImageDataThrows(clientWidth, clientHeight)
  THEN Thrown(clientWidth, clientHeight)
  ELSE FillAndBlit(clientWidth, clientHeight, v, subsolar)

(***************************************************************************)
(* The state.  Every run of the effect (lines 103-150) makes an instance   *)
(* of its own: a map, an overlay canvas, a rerender handler, an interval   *)
(* and, when the effect returns, a cleanup closure.                        *)
(***************************************************************************)
VARIABLES
  inst,     \* per effect run: what it holds (see NoInstance)
  n,        \* number of effect runs so far
  mounted,  \* the instance whose component is mounted, 0 when none is
  viewW,    \* clientWidth of the mounted overlay canvas
  viewH,    \* clientHeight of the mounted overlay canvas
  view,     \* the view (centre, zoom) of the mounted map
  now,      \* the wall clock, what new Date() reads
  last,     \* the handler that ran last and what it did
  call,     \* a function of the file called on its own (see NoCall)
  hasSunlightOverlay,  \* App.jsx line 952, as of the dashboard's last render
  board     \* the clocks of the dashboard and what adds to them (see NoBoard)

\* what the mounted component and its overlay make up
overlayVars == << inst, n, mounted, viewW, viewH, view, now, last >>

\* what the dashboard around the overlay holds
appVars == << hasSunlightOverlay, board >>

vars ==
  << inst, n, mounted, viewW, viewH, view, now, last, call,
     hasSunlightOverlay, board >>

Instances == 1..MaxInst

\* new Date() on clock value c, as minutes relative to J2000
Instant(c) == ClockBase + c * ClockStep

\* setInterval(render, 60 * 1000), line 139: the delay in ms
IntervalMs == 60 * 1000

NoInstance ==
  [phase |-> "none",     \* none | attached | aborted | detached
   timer |-> 0,          \* delay of the armed interval, 0 when none is armed
   handler |-> FALSE,    \* rerender is subscribed to 'move zoom resize'
   inPane |-> FALSE,     \* overlay.parentNode is the overlay pane
   mapLive |-> FALSE,    \* the map is created and not removed
   mapRemoves |-> 0,     \* calls of map.remove()
   cleanup |-> FALSE,    \* the effect returned its cleanup closure
   detaches |-> 0]       \* calls of the cleanup closure

NoRun ==
  [ops |-> << >>, instant |-> -1, subsolar |-> [lat |-> 0, lon |-> 0],
   threw |-> FALSE, width |-> 0, height |-> 0, image |-> << >>]

Handled(h, i, run) == [h |-> h, i |-> i, run |-> run]

\* no function is being called on its own
NoCall == [fn |-> "none", done |-> FALSE]

\* no dashboard is being followed
NoBoard == [dashboard |-> "none"]

\* the client size of instance i's canvas: an element outside the document
\* has none
clientWidth(i) == IF mounted = i /\ inst[i].inPane THEN viewW ELSE 0
clientHeight(i) == IF mounted = i /\ inst[i].inPane THEN viewH ELSE 0

(***************************************************************************)
(* render(), lines 128-131, on a canvas of client size cw x ch, a map in   *)
(* view v and a clock reading c.                                           *)
(***************************************************************************)
\* what one call of render() did: d is what drawSunlightMask did
RunOf(c, subsolar, d) ==
  [ops |-> << Op("render", c, 0) >> \o d.ops, instant |-> c,
   subsolar |-> subsolar, threw |-> d.threw, width |-> d.width,
   height |-> d.height, image |-> d.image]

\* Variant: sizing the canvas notifies the map, whose handler renders inside
\* the render that is running.
NestedOps(d, c) ==
  [d EXCEPT !.ops = Prologue(d.width, d.height) \o << Op("render", c, 0) >> \o d.ops]

DrawNested(cw, ch, v, c, subsolar) ==
  RunOf(c, subsolar, NestedOps(drawSunlightMask(cw, ch, v, subsolar), c))

\* Variant: the buffer is created at the first render, when the clock reads
\* 0, and kept: a later render only darkens it.
Darker(a, b) == IF a > b THEN a ELSE b

KeptBuffer(d, first) ==
  IF d.threw THEN d
  ELSE [d EXCEPT !.image = [k \in 1..Len(d.image) |-> Darker(d.image[k], first.image[k])]]

DrawOnKeptBuffer(cw, ch, v, c, subsolar) ==
  RunOf(c, subsolar,
        KeptBuffer(drawSunlightMask(cw, ch, v, subsolar),
                   drawSunlightMask(cw, ch, v, getSubsolarPoint(Instant(0)))))

\* line 130
Draw(cw, ch, v, c, subsolar) ==
  RunOf(c, subsolar, drawSunlightMask(cw, ch, v, subsolar))

\* Variant: the Date is read once, when the clock reads 0, and kept.
renderNowStale(cw, ch, v, c) == Draw(cw, ch, v, 0, getSubsolarPoint(Instant(0)))

\* line 129, then line 130
renderNow(cw, ch, v, c) == Draw(cw, ch, v, c, getSubsolarPoint(Instant(c)))

\* renderNow for every client size, view and clock reading of the model, as
\* an explicit table (@@ tabulates the function), so each is computed once
Rendered ==
  [a \in (0..MaxW) \X (0..MaxH) \X (0..MaxView) \X (0..MaxClock) |->
     renderNow(a[1], a[2], a[3], a[4])] @@ << >>

render(cw, ch, v, c) == Rendered[<< cw, ch, v, c >>]

\* const rerender = () => render(), line 134
rerender(cw, ch, v, c) == render(cw, ch, v, c)

(***************************************************************************)
(* The effect, lines 103-143, on a container laid out so that the canvas   *)
(* has client size w x h.  The map is created in view 0 (setView), the     *)
(* canvas appended, rerender subscribed, then render() runs: when it       *)
(* throws the effect is left there, and React, finding no error boundary,  *)
(* unmounts the tree without a cleanup for this run.                       *)
(***************************************************************************)
\* lines 107-135: the map, the canvas in its pane, the subscription
Created ==
  [NoInstance EXCEPT !.mapLive = TRUE, !.inPane = TRUE, !.handler = TRUE]

\* lines 139-149, reached when render() returned
Armed(rec) ==
  [rec EXCEPT !.phase = "attached", !.timer = IntervalMs, !.cleanup = TRUE]

Aborted(rec) == [rec EXCEPT !.phase = "aborted"]

Mount(w, h) ==
  /\ mounted = 0
  /\ n < MaxInst
  /\ n' = n + 1
  /\ last' = Handled("mount", n + 1, render(w, h, 0, now))
  /\ view' = 0
  /\ IF last'.run.threw
     THEN /\ inst' = [inst EXCEPT ![n + 1] = Aborted(Created)]
          /\ mounted' = 0
          /\ viewW' = 0
          /\ viewH' = 0
     ELSE /\ inst' = [inst EXCEPT ![n + 1] = Armed(Created)]
          /\ mounted' = n + 1
          /\ viewW' = w
          /\ viewH' = h
  /\ UNCHANGED << now, call >>

(***************************************************************************)
(* The interval of instance i fires: render is called, line 139.  An       *)
(* interval stays armed whatever its callback does.                        *)
(***************************************************************************)
\* Variant: setTimeout in place of setInterval, a timer that fires once.
TimeoutAfterFire(rec) == [rec EXCEPT !.timer = 0]

IntervalAfterFire(rec) == rec

TimerFire(i) ==
  /\ inst[i].timer > 0
  /\ last' = Handled("tick", i, render(clientWidth(i), clientHeight(i), view, now))
  /\ inst' = [inst EXCEPT ![i] = IntervalAfterFire(@)]
  /\ UNCHANGED << n, mounted, viewW, viewH, view, now, call >>

(***************************************************************************)
(* The map of instance i fires e, one of 'move', 'zoom', 'resize': the     *)
(* mounted map after the host changed its view or its size, any other map  *)
(* with nothing changed.  rerender runs if it is subscribed, line 135.     *)
(***************************************************************************)
Events == {"move", "zoom", "resize"}

\* an on() subscription stays after the handler ran
HandlerAfterFire(rec) == rec

ViewportChange(i, e, w, h, v) ==
  /\ inst[i].phase # "none"
  /\ IF mounted = i /\ e = "resize" THEN TRUE ELSE w = viewW /\ h = viewH
  /\ IF mounted = i /\ e # "resize" THEN TRUE ELSE v = view
  /\ viewW' = w
  /\ viewH' = h
  /\ view' = v
  /\ last' = Handled(e, i,
               IF inst[i].handler
               THEN rerender(IF mounted = i /\ inst[i].inPane THEN w ELSE 0,
                             IF mounted = i /\ inst[i].inPane THEN h ELSE 0,
                             v, now)
               ELSE NoRun)
  /\ inst' = [inst EXCEPT ![i] = HandlerAfterFire(@)]
  /\ UNCHANGED << n, mounted, now, call >>

(***************************************************************************)
(* The cleanup closure of instance i, lines 144-149: React calls it when   *)
(* the component unmounts; the closure can be called again afterwards.     *)
(***************************************************************************)
\* Variant: the cleanup leaves the interval armed.
clearIntervalSkipped(rec) == rec

\* clearInterval(interval), line 145
clearInterval(rec) == [rec EXCEPT !.timer = 0]

\* map.off('move zoom resize', rerender), line 146
mapOff(rec) == [rec EXCEPT !.handler = FALSE]

\* if (overlay && overlay.parentNode) overlay.parentNode.removeChild(overlay), line 147
removeOverlay(rec) == IF rec.inPane THEN [rec EXCEPT !.inPane = FALSE] ELSE rec

\* map.remove(), line 148
mapRemove(rec) ==
  [rec EXCEPT !.mapLive = FALSE, !.mapRemoves = @ + 1]

cleanup(rec) ==
  [mapRemove(removeOverlay(mapOff(clearInterval(rec))))
     EXCEPT !.phase = "detached", !.detaches = @ + 1]

Detach(i) ==
  /\ inst[i].cleanup
  /\ inst[i].detaches < MaxDetach
  /\ inst' = [inst EXCEPT ![i] = cleanup(@)]
  /\ last' = Handled("detach", i, NoRun)
  /\ mounted' = IF mounted = i THEN 0 ELSE mounted
  /\ viewW' = IF mounted = i THEN 0 ELSE viewW
  /\ viewH' = IF mounted = i THEN 0 ELSE viewH
  /\ view' = IF mounted = i THEN 0 ELSE view
  /\ UNCHANGED << n, now, call >>

(***************************************************************************)
(* Time passes.                                                            *)
(***************************************************************************)
ClockAdvance ==
  /\ now < MaxClock
  /\ now' = now + 1
  /\ UNCHANGED << inst, n, mounted, viewW, viewH, view, last, call >>

\* before the effect has run: nothing is mounted
Unmounted ==
  /\ inst = [i \in Instances |-> NoInstance]
  /\ n = 0
  /\ mounted = 0
  /\ viewW = 0
  /\ viewH = 0
  /\ view = 0
  /\ now = 0
  /\ last = Handled("init", 0, NoRun)

\* the dashboard has not rendered
NoDashboard ==
  /\ hasSunlightOverlay = FALSE
  /\ board = NoBoard

Init ==
  /\ Unmounted
  /\ call = NoCall
  /\ NoDashboard

Next ==
  \/ \E w \in 0..MaxW, h \in 0..MaxH : Mount(w, h) /\ UNCHANGED appVars
  \/ \E i \in Instances : TimerFire(i) /\ UNCHANGED appVars
  \/ \E i \in Instances, e \in Events, w \in 0..MaxW, h \in 0..MaxH,
        v \in 0..MaxView : ViewportChange(i, e, w, h, v) /\ UNCHANGED appVars
  \/ \E i \in Instances : Detach(i) /\ UNCHANGED appVars
  \/ ClockAdvance /\ UNCHANGED appVars

Spec == Init /\ [][Next]_vars

(***************************************************************************)
(* getSubsolarPoint on its own, lines 12-50: called with a date taken from *)
(* Dates, two sweeps of instants given in minutes relative to J2000.  The  *)
(* first goes in steps of SweepStep from MaxSweep steps before the epoch   *)
(* to MaxSweep steps after it, through all seasons and hours of the day;   *)
(* the second goes minute by minute from CrossingStart, 2000-03-24 23:46   *)
(* UTC, while the subsolar point passes the antimeridian.                  *)
(***************************************************************************)
MaxSweep == 20
MaxCrossing == 40

\* 61 days 7 hours 13 minutes
SweepStep == 61 * 24 * 60 + 7 * 60 + 13
\* 83 days 11 hours 46 minutes after J2000
CrossingStart == 83 * 24 * 60 + 11 * 60 + 46

\* The solstices of the years 2000 - MaxYear to 2000 + MaxYear: those of
\* 2000, 21 June 01:48 UTC and 21 December 13:37 UTC, moved by whole
\* tropical years of 365 days 5 hours 49 minutes.
MaxYear == 10

TropicalYear == 365 * 24 * 60 + 5 * 60 + 49
JuneSolstice2000 == 171 * 24 * 60 + 13 * 60 + 48
DecemberSolstice2000 == 355 * 24 * 60 + 60 + 37

JuneSolstices == {JuneSolstice2000 + TropicalYear * k : k \in (-MaxYear)..MaxYear}
DecemberSolstices ==
  {DecemberSolstice2000 + TropicalYear * k : k \in (-MaxYear)..MaxYear}

Dates ==
  {SweepStep * k : k \in (-MaxSweep)..MaxSweep}
    \cup {CrossingStart + k : k \in 0..MaxCrossing}
    \cup JuneSolstices \cup DecemberSolstices

SolarInit ==
  /\ Unmounted
  /\ NoDashboard
  /\ call \in {[fn |-> "getSubsolarPoint", done |-> FALSE, date |-> t,
                 subsolar |-> [lat |-> 0, lon |-> 0]] : t \in Dates}

\* the call returns, line 49
CallGetSubsolarPoint ==
  /\ call.fn = "getSubsolarPoint"
  /\ ~call.done
  /\ call' = [call EXCEPT !.done = TRUE, !.subsolar = getSubsolarPoint(call.date)]
  /\ UNCHANGED << overlayVars, appVars >>

SolarNext == CallGetSubsolarPoint

SolarSpec == SolarInit /\ [][SolarNext]_vars

(***************************************************************************)
(* The classification of one sample on its own, lines 74-81: latlng is     *)
(* what map.layerPointToLatLng returned for the cell, subsolar the point   *)
(* render() passed.  The subsolar point is taken from a grid over the      *)
(* globe, LatCells steps from pole to pole and LonCells steps round it;    *)
(* latlng from the same grid, the subsolar point itself and its antipode.  *)
(***************************************************************************)
LatCells == 6
LonCells == 8

Lats == {(18000 * k) \div LatCells - 9000 : k \in 0..LatCells}
Lons == {(36000 * k) \div LonCells - 18000 : k \in 0..LonCells}

\* the point of the globe where subsolar is, as a latlng
At(subsolar) == [lat |-> subsolar.lat, lng |-> subsolar.lon]

\* the point opposite to it
Antipode(subsolar) ==
  [lat |-> -subsolar.lat,
   lng |-> IF subsolar.lon > 0 THEN subsolar.lon - 18000 ELSE subsolar.lon + 18000]

Subsolars == {[lat |-> a, lon |-> b] : a \in Lats, b \in Lons}

\* the points of the equator one degree before, at and one degree after
\* the quarter turn from the meridian of subsolar, to the east and to the west
AcrossBoundary(subsolar) ==
  {[lat |-> 0, lng |-> subsolar.lon + side * (9000 + e)] :
     side \in {-1, 1}, e \in {-100, 0, 100}}

LatLngs(subsolar) ==
  {[lat |-> a, lng |-> b] : a \in Lats, b \in Lons}
    \cup {At(subsolar), Antipode(subsolar)}
    \cup AcrossBoundary(subsolar)

SampleInit ==
  /\ Unmounted
  /\ NoDashboard
  /\ \E subsolar \in Subsolars :
       call \in {[fn |-> "sample", done |-> FALSE, latlng |-> ll,
                  subsolar |-> subsolar, isDay |-> FALSE, alpha |-> 0] :
                   ll \in LatLngs(subsolar)}

\* lines 74-81 for the sample
CallSample ==
  /\ call.fn = "sample"
  /\ ~call.done
  /\ call' = [call EXCEPT !.done = TRUE,
                          !.isDay = isDay(call.latlng, call.subsolar),
                          !.alpha = alphaOf(call.latlng, call.subsolar)]
  /\ UNCHANGED << overlayVars, appVars >>

SampleNext == CallSample

SampleSpec == SampleInit /\ [][SampleNext]_vars

(***************************************************************************)
(* The clocks of the dashboard.  App.jsx holds the dashboard whose         *)
(* addClock takes the timezone as an argument (lines 1203-1223);           *)
(* unnamed/part_000 holds the one whose addClock reads selectedTimezone    *)
(* from the render that made it (lines 202-222, the same text as App.jsx   *)
(* lines 286-305) and whose list buttons call it from a timeout.  A        *)
(* handler sees the state of the render that created it: React has         *)
(* rendered again between two events, so a handler called by a click sees  *)
(* the current state, while a timeout's callback keeps the state of the    *)
(* render in which its click happened.  setClocks(prev => ...) is applied  *)
(* to the current list in both cases.                                      *)
(***************************************************************************)
\* how many of TIME_ZONES the inputs are taken from
MaxZones == 4
\* the longest list of clocks and the most timeouts followed
MaxClocks == 5
MaxPending == 3
\* how many keystrokes and clicks are followed
MaxEvents == 6
\* Date.now() at the start, and how often it is seen to change
FirstMs == 10
MaxMs == 1

\* the list of App.jsx lines 752-768 (Sao Paulo written without its tilde)
TIME_ZONES ==
  << [label |-> "New York", value |-> "America/New_York"],
     [label |-> "London", value |-> "Europe/London"],
     [label |-> "Tokyo", value |-> "Asia/Tokyo"],
     [label |-> "Paris", value |-> "Europe/Paris"],
     [label |-> "Sydney", value |-> "Australia/Sydney"],
     [label |-> "Los Angeles", value |-> "America/Los_Angeles"],
     [label |-> "Dubai", value |-> "Asia/Dubai"],
     [label |-> "Mumbai", value |-> "Asia/Kolkata"],
     [label |-> "Singapore", value |-> "Asia/Singapore"],
     [label |-> "Berlin", value |-> "Europe/Berlin"],
     [label |-> "Sao Paulo", value |-> "America/Sao_Paulo"],
     [label |-> "Cairo", value |-> "Africa/Cairo"],
     [label |-> "Moscow", value |-> "Europe/Moscow"],
     [label |-> "Hong Kong", value |-> "Asia/Hong_Kong"],
     [label |-> "Toronto", value |-> "America/Toronto"] >>

\* the zones the inputs are taken from
Offered == {TIME_ZONES[k] : k \in 1..MaxZones}

\* TIME_ZONES.find(tz => tz.value === value): the set holding what is found
FindZone(value) ==
  {TIME_ZONES[k] : k \in {j \in 1..Len(TIME_ZONES) : TIME_ZONES[j].value = value}}

\* useState([...]) of the clocks
InitialClocks ==
  << [id |-> 1, label |-> "New York", timezone |-> "America/New_York"],
     [id |-> 2, label |-> "London", timezone |-> "Europe/London"],
     [id |-> 3, label |-> "Tokyo", timezone |-> "Asia/Tokyo"] >>

\* clocks.some(clock => clock.timezone === timezoneValue)
HasTimezone(clocks, timezoneValue) ==
  \E k \in 1..Len(clocks) : clocks[k].timezone = timezoneValue

\* addClock gets past its three returns
Adds(timezoneValue, clocks) ==
  /\ timezoneValue # ""
  /\ FindZone(timezoneValue) # {}
  /\ ~HasTimezone(clocks, timezoneValue)

\* addClock called with timezoneValue (its argument, or the selectedTimezone
\* of its render) in a render whose list is clocks, at Date.now() = ms:
\* the list that setClocks(prev => [...prev, newClock]) makes of prev
addClock(timezoneValue, clocks, prev, ms) ==
  IF ~Adds(timezoneValue, clocks) THEN prev
  ELSE LET selectedTz == CHOOSE tz \in FindZone(timezoneValue) : TRUE
       IN  Append(prev, [id |-> ms, label |-> selectedTz.label,
                         timezone |-> selectedTz.value])

\* prev.filter(clock => clock.id !== id)
KeepsOthers(prev, id) ==
  LET Other(clock) == clock.id # id IN SelectSeq(prev, Other)

removeClock(id, prev) == KeepsOthers(prev, id)

\* the texts typed into the search input
Typed == {"par", "Mars/Olympus"} \cup {tz.value : tz \in Offered}

\* TIME_ZONES.filter(zone => label or value includes the text, lower case),
\* for the texts of Typed: "par" is part of Paris and Europe/Paris only, a
\* value is part of itself only
filteredTimezones(text) ==
  {TIME_ZONES[k] : k \in {j \in 1..Len(TIME_ZONES) :
     \/ TIME_ZONES[j].value = text
     \/ text = "par" /\ TIME_ZONES[j].label = "Paris"}}

\* TIME_ZONES.slice(0, 3)
quickAddZones == {TIME_ZONES[k] : k \in 1..3}

\* ['Paris', 'Sydney', 'Dubai', 'Mumbai'] with the zone each label finds
PopularCities ==
  {tz \in Offered : tz.label \in {"Paris", "Sydney", "Dubai", "Mumbai"}}

\* a dashboard after its first render, the search_bar gate being g
Board(d, g) ==
  [dashboard |-> d, searchBar |-> g, clocks |-> InitialClocks,
   selectedTimezone |-> "", showAddClock |-> FALSE, timeouts |-> << >>,
   ms |-> FirstMs, events |-> 0]

BoardRest == UNCHANGED << overlayVars, call, hasSunlightOverlay >>

\* room for one more clock within the lists followed
Room == Len(board.clocks) + Len(board.timeouts) < MaxClocks

\* one more keystroke or click is followed
Event == board.events < MaxEvents

\* onFocus and onChange of the search input
TypeTimezone(text) ==
  /\ board.dashboard # "none"
  /\ board.searchBar
  /\ Event
  /\ board' = [board EXCEPT !.selectedTimezone = text, !.showAddClock = TRUE,
                            !.events = @ + 1]
  /\ BoardRest

\* addClock(zone.value, ...) of App.jsx called by a click
AddClockByClick(timezoneValue) ==
  board' = [board EXCEPT
    !.clocks = addClock(timezoneValue, board.clocks, board.clocks, board.ms),
    !.selectedTimezone =
      IF Adds(timezoneValue, board.clocks) THEN "" ELSE @,
    !.showAddClock = IF Adds(timezoneValue, board.clocks) THEN FALSE ELSE @,
    !.events = @ + 1]

\* App.jsx line 1472: a click in the list of search results
ClickSearchResult(zone) ==
  /\ board.dashboard = "App.jsx"
  /\ board.searchBar
  /\ board.showAddClock
  /\ board.selectedTimezone # ""
  /\ zone \in filteredTimezones(board.selectedTimezone)
  /\ Room
  /\ Event
  /\ AddClockByClick(zone.value)
  /\ BoardRest

\* App.jsx line 1491: a click on a quick-select button
ClickQuickSelect(zone) ==
  /\ board.dashboard = "App.jsx"
  /\ board.searchBar
  /\ zone \in quickAddZones
  /\ Room
  /\ Event
  /\ AddClockByClick(zone.value)
  /\ BoardRest

\* setTimeout(() => { addClock(); setSelectedTimezone(''); }, delay) in a
\* handler of the current render, clicked for timezone: the callback keeps
\* that render's selectedTimezone and clocks; one with a delay runs after
\* Date.now() has changed
Timeout(timezone, delayed) ==
  [selectedTimezone |-> board.selectedTimezone, clocks |-> board.clocks,
   timezone |-> timezone, due |-> IF delayed THEN board.ms + 1 ELSE board.ms]

\* part_000 lines 354-361: a click in the list of search results
ClickSearchResultDeferred(zone) ==
  /\ board.dashboard = "part_000"
  /\ board.searchBar
  /\ board.showAddClock
  /\ board.selectedTimezone # ""
  /\ zone \in filteredTimezones(board.selectedTimezone)
  /\ Room
  /\ Len(board.timeouts) < MaxPending
  /\ Event
  /\ board' = [board EXCEPT
       !.events = @ + 1,
       !.selectedTimezone = zone.value,
       !.showAddClock = FALSE,
       !.timeouts = Append(@, Timeout(zone.value, TRUE))]
  /\ BoardRest

\* part_000 lines 378-383: the Add button, disabled unless selectedTimezone
\* is the value of a zone
ClickAdd ==
  /\ board.dashboard = "part_000"
  /\ board.searchBar
  /\ board.selectedTimezone # ""
  /\ FindZone(board.selectedTimezone) # {}
  /\ Room
  /\ Event
  /\ board' = [board EXCEPT
       !.events = @ + 1,
       !.clocks = addClock(board.selectedTimezone, board.clocks,
                           board.clocks, board.ms),
       !.selectedTimezone = "",
       !.showAddClock = FALSE]
  /\ BoardRest

\* part_000 lines 392-412: a click on "Add <city>"
ClickQuickAdd(timezone) ==
  /\ board.dashboard = "part_000"
  /\ ~board.searchBar
  /\ timezone \in PopularCities
  /\ Room
  /\ Len(board.timeouts) < MaxPending
  /\ Event
  /\ board' = [board EXCEPT
       !.events = @ + 1,
       !.selectedTimezone = timezone.value,
       !.timeouts = Append(@, Timeout(timezone.value, FALSE))]
  /\ BoardRest

\* the oldest timeout runs: addClock() of the render that set it, then
\* setSelectedTimezone('')
TimeoutFire ==
  /\ board.dashboard # "none"
  /\ board.timeouts # << >>
  /\ Head(board.timeouts).due <= board.ms
  /\ LET closure == Head(board.timeouts)
     IN  board' = [board EXCEPT
           !.clocks = addClock(closure.selectedTimezone, closure.clocks,
                               board.clocks, board.ms),
           !.selectedTimezone = "",
           !.showAddClock =
             IF Adds(closure.selectedTimezone, closure.clocks)
             THEN FALSE ELSE @,
           !.timeouts = Tail(@)]
  /\ BoardRest

\* a click on the remove button of the clock with this id, rendered while
\* clocks.length > 1
ClickRemove(id) ==
  /\ board.dashboard # "none"
  /\ Len(board.clocks) > 1
  /\ \E k \in 1..Len(board.clocks) : board.clocks[k].id = id
  /\ Event
  /\ board' = [board EXCEPT !.clocks = removeClock(id, board.clocks),
                            !.events = @ + 1]
  /\ BoardRest

\* Date.now() changes
MsAdvance ==
  /\ board.dashboard # "none"
  /\ board.ms < FirstMs + MaxMs
  /\ board' = [board EXCEPT !.ms = @ + 1]
  /\ BoardRest

\* the ids a clock can have
Ids == 1..3 \cup FirstMs..(FirstMs + MaxMs)

ClocksInit ==
  /\ Unmounted
  /\ call = NoCall
  /\ hasSunlightOverlay = FALSE
  /\ board \in {Board(d, g) : d \in {"App.jsx", "part_000"}, g \in BOOLEAN}

ClocksNext ==
  \/ \E text \in Typed : TypeTimezone(text)
  \/ \E zone \in Offered : ClickSearchResult(zone)
  \/ \E zone \in Offered : ClickQuickSelect(zone)
  \/ \E zone \in Offered : ClickSearchResultDeferred(zone)
  \/ ClickAdd
  \/ \E timezone \in Offered : ClickQuickAdd(timezone)
  \/ TimeoutFire
  \/ \E id \in Ids : ClickRemove(id)
  \/ MsAdvance

ClocksSpec == ClocksInit /\ [][ClocksNext]_vars

\* part_000 with the search_bar gate off: the quick-add buttons, with every
\* timeout that is set run in the end
QuickAddInit ==
  /\ Unmounted
  /\ call = NoCall
  /\ hasSunlightOverlay = FALSE
  /\ board = Board("part_000", FALSE)

QuickAddNext ==
  \/ \E timezone \in Offered : ClickQuickAdd(timezone)
  \/ TimeoutFire
  \/ \E id \in Ids : ClickRemove(id)
  \/ MsAdvance

QuickAddSpec ==
  QuickAddInit /\ [][QuickAddNext]_vars /\ WF_vars(TimeoutFire)

(***************************************************************************)
(* The overlay under its feature gate, App.jsx lines 952 and 1567-1571:    *)
(* WorldClockDashboard renders {hasSunlightOverlay && (... <WorldMap-      *)
(* WithSunlight /> ...)}, with hasSunlightOverlay what checkGate returns   *)
(* at that render.  A render that turns it on makes React mount the        *)
(* component and run its effect, one that turns it off makes React unmount *)
(* it and call its cleanup.  When an effect throws, React unmounts the     *)
(* whole tree and the dashboard renders no more.                           *)
(***************************************************************************)
\* an effect threw: the root is unmounted
Crashed == \E i \in Instances : inst[i].phase = "aborted"

\* a render of the dashboard in which checkGate("sunlight_overlay") is true
\* after one in which it was false (or the first), in a container laid out
\* so that the canvas has client size w x h
GateOn(w, h) ==
  /\ ~Crashed
  /\ ~hasSunlightOverlay
  /\ hasSunlightOverlay' = TRUE
  /\ Mount(w, h)
  /\ UNCHANGED board

\* a render of the dashboard in which the gate is false after one in which
\* it was true
GateOff ==
  /\ ~Crashed
  /\ hasSunlightOverlay
  /\ hasSunlightOverlay' = FALSE
  /\ mounted # 0
  /\ Detach(mounted)
  /\ UNCHANGED board

GateInit == Init

GateNext ==
  \/ \E w \in 0..MaxW, h \in 0..MaxH : GateOn(w, h)
  \/ GateOff
  \/ \E i \in Instances : TimerFire(i) /\ UNCHANGED appVars
  \/ \E i \in Instances, e \in Events, w \in 0..MaxW, h \in 0..MaxH,
        v \in 0..MaxView : ViewportChange(i, e, w, h, v) /\ UNCHANGED appVars
  \/ ClockAdvance /\ UNCHANGED appVars

GateSpec == GateInit /\ [][GateNext]_vars

(***************************************************************************)
(* The properties.                                                         *)
(***************************************************************************)
\* number of operations named name among ops
Count(ops, name) == Cardinality({j \in 1..Len(ops) : ops[j].op = name})

\* the last handler called render()
Rendering == Count(last.run.ops, "render") > 0

Detached(i) == inst[i].phase = "detached"
Attached(i) == inst[i].phase = "attached"

\* the operations that touch the canvas or the map
Touching ==
  {"size", "clearRect", "createImageData", "set", "putImageData",
   "layerPointToLatLng", "throw"}

\* C1: once the cleanup of an instance has run, its interval is cancelled,
\* its handler unsubscribed and its canvas out of the pane, and no handler
\* of that instance that runs afterwards renders or blits.
C1_DetachStopsRendering ==
  \A i \in Instances :
    Detached(i) =>
      /\ inst[i].timer = 0
      /\ ~inst[i].handler
      /\ ~inst[i].inPane
      /\ last.i = i =>
           /\ Count(last.run.ops, "render") = 0
           /\ Count(last.run.ops, "putImageData") = 0

\* a notification fired on the map of a detached instance
C1_Witness ==
  \E i \in Instances : Detached(i) /\ last.i = i /\ last.h \in Events

\* C2: the callbacks check whether the overlay is still attached: run on a
\* detached instance, the interval callback (render) and the viewport
\* callback (rerender) touch neither the canvas nor the map and throw nothing.
C2_StaleCallbackDropped ==
  \A i \in Instances :
    Detached(i) =>
      /\ \A j \in 1..Len(render(clientWidth(i), clientHeight(i), view, now).ops) :
           render(clientWidth(i), clientHeight(i), view, now).ops[j].op \notin Touching
      /\ \A j \in 1..Len(rerender(clientWidth(i), clientHeight(i), view, now).ops) :
           rerender(clientWidth(i), clientHeight(i), view, now).ops[j].op \notin Touching

\* C3: calling the cleanup again changes nothing and releases nothing a
\* second time: the map of an instance is removed at most once.
C3_DetachIdempotent ==
  \A i \in Instances :
    /\ inst[i].mapRemoves <= 1
    /\ Detached(i) =>
         inst[i].timer = 0 /\ ~inst[i].handler /\ ~inst[i].inPane /\ ~inst[i].mapLive

\* C4: a render on a canvas of zero width or zero height is a skip: it
\* throws nothing, creates no image data and puts none on the canvas.
C4_ZeroAreaIsSkip ==
  (Rendering /\ (last.run.width = 0 \/ last.run.height = 0)) =>
    /\ ~last.run.threw
    /\ Count(last.run.ops, "throw") = 0
    /\ Count(last.run.ops, "createImageData") = 0
    /\ Count(last.run.ops, "putImageData") = 0

\* C5: a render on a canvas of zero width or zero height never calls
\* map.layerPointToLatLng.
C5_ZeroAreaNoProjection ==
  (Rendering /\ (last.run.width = 0 \/ last.run.height = 0)) =>
    Count(last.run.ops, "layerPointToLatLng") = 0

\* renders of a mounted overlay resized to 0 x H and to W x 0
C5_Witness ==
  /\ Rendering
  /\ last.h = "resize"
  /\ mounted = last.i
  /\ \/ last.run.width = 0 /\ last.run.height > 0
     \/ last.run.width > 0 /\ last.run.height = 0

\* C6: when the effect has run, the instance is attached, exactly one
\* render has happened and the interval is armed with 60000 ms.
C6_AttachRendersAndArms ==
  last.h = "mount" =>
    /\ Attached(last.i)
    /\ Count(last.run.ops, "render") = 1
    /\ inst[last.i].timer = 60000

\* C7: a tick or a viewport notification on an attached instance runs one
\* render and leaves the instance attached, its interval armed and its
\* handler subscribed.
C7_TriggerRendersOnce ==
  (last.h \in Events \cup {"tick"} /\ Attached(last.i)) =>
    /\ Count(last.run.ops, "render") = 1
    /\ inst[last.i].timer = IntervalMs
    /\ inst[last.i].handler
    /\ mounted = last.i

\* a tick on an attached instance whose render drew
C7_Witness ==
  last.h = "tick" /\ Attached(last.i) /\ ~last.run.threw /\ last.run.width > 0

\* C8: every render reads the clock when it starts and computes the
\* subsolar point from that reading.
C8_FreshInstant ==
  [][(last' # last /\ Count(last'.run.ops, "render") > 0) =>
       /\ last'.run.instant = now'
       /\ last'.run.subsolar = getSubsolarPoint(Instant(now'))]_vars

\* a tick after the clock moved on, with another subsolar point than at first
C8_Witness ==
  /\ last.h = "tick"
  /\ last.run.instant = MaxClock
  /\ last.run.subsolar # getSubsolarPoint(Instant(0))

\* every index of a width x height buffer is written among ops
AllWritten(ops, width, height) ==
  \A k \in 0..(width * height * 4 - 1) :
    \E j \in 1..Len(ops) : ops[j].op = "set" /\ ops[j].a = k

\* C9: a handler runs at most one render, which starts the handler and ends
\* with the blit or with the exception; what is on the canvas afterwards is
\* nothing or a buffer of the canvas's size with every pixel written.
C9_NoOverlap ==
  /\ Count(last.run.ops, "render") <= 1
  /\ Rendering =>
       /\ last.run.ops[1].op = "render"
       /\ last.run.ops[Len(last.run.ops)].op \in {"putImageData", "throw"}
       /\ \/ last.run.threw /\ last.run.image = << >>
          \/ /\ ~last.run.threw
             /\ Len(last.run.image) = last.run.width * last.run.height * 4
             /\ AllWritten(last.run.ops, last.run.width, last.run.height)

\* a viewport notification rendered right after an earlier render
C9_Witness ==
  /\ last.h = "move"
  /\ Attached(last.i)
  /\ ~last.run.threw
  /\ Len(last.run.image) > 0

\* the operations before the first putImageData
BeforeBlit(ops) ==
  SubSeq(ops, 1,
         (CHOOSE j \in 1..Len(ops) :
            ops[j].op = "putImageData"
              /\ \A j2 \in 1..(j - 1) : ops[j2].op # "putImageData") - 1)

\* C10: a render on a canvas of positive width and height puts the buffer
\* on the canvas exactly once, as its last operation, and every pixel of
\* the buffer is written before that.
C10_BlitOnceAfterFill ==
  (Rendering /\ last.run.width > 0 /\ last.run.height > 0) =>
    /\ Count(last.run.ops, "putImageData") = 1
    /\ last.run.ops[Len(last.run.ops)].op = "putImageData"
    /\ AllWritten(BeforeBlit(last.run.ops), last.run.width, last.run.height)

\* a render of a canvas with two columns of cells, the second one clamped
C10_Witness ==
  Rendering /\ last.run.width = 3 /\ last.run.height = 2 /\ ~last.run.threw

\* C11: in the buffer of every render that drew, the alpha of every pixel
\* is 0 or the night constant 90, and nothing else is ever written to an
\* alpha byte.
C11_AlphaTwoValued ==
  (Rendering /\ ~last.run.threw) =>
    /\ \A k \in 1..(last.run.width * last.run.height) :
         last.run.image[4 * k] \in {0, 90}
    /\ \A j \in 1..Len(last.run.ops) :
         (last.run.ops[j].op = "set" /\ last.run.ops[j].a % 4 = 3) =>
           last.run.ops[j].b \in {0, 90}

\* a buffer of the largest canvas that holds day pixels and night pixels
C11_Witness ==
  /\ Rendering
  /\ ~last.run.threw
  /\ last.run.width = MaxW
  /\ last.run.height = MaxH
  /\ \E k \in 1..(last.run.width * last.run.height) : last.run.image[4 * k] = 0
  /\ \E k \in 1..(last.run.width * last.run.height) : last.run.image[4 * k] = 90

\* the alpha byte of pixel (px, py) of the buffer of the last render
AlphaAt(px, py) == last.run.image[(py * last.run.width + px) * 4 + 4]

\* C12: after a render that drew, every pixel (px, py) of the buffer has
\* R = G = B = 0 and the alpha of the sample taken at the top-left pixel of
\* its cell, (step * (px \div step), step * (py \div step)): 0 when that
\* sample is in daylight, 90 when not; every byte of the buffer is written
\* exactly once.
C12_CellFill ==
  (Rendering /\ ~last.run.threw) =>
    /\ \A px \in 0..(last.run.width - 1), py \in 0..(last.run.height - 1) :
         /\ \A c \in 1..3 : last.run.image[(py * last.run.width + px) * 4 + c] = 0
         /\ AlphaAt(px, py) =
              (IF isDay(layerPointToLatLng(view, step * (px \div step),
                                           step * (py \div step)),
                        last.run.subsolar)
               THEN 0 ELSE 90)
    /\ \A k \in 0..(last.run.width * last.run.height * 4 - 1) :
         Cardinality({j \in 1..Len(last.run.ops) :
                        last.run.ops[j].op = "set" /\ last.run.ops[j].a = k}) = 1

\* a 3 x 3 buffer in which a cell of daylight and a cell of night meet, so
\* that the pixels of one cell differ from their neighbours of the next
C12_Witness ==
  /\ Rendering
  /\ ~last.run.threw
  /\ last.run.width = 3
  /\ last.run.height = 3
  /\ AlphaAt(1, 1) # AlphaAt(2, 1)
  /\ AlphaAt(0, 0) = AlphaAt(1, 1)

\* the cell being filled when operation j of ops runs: the latest
\* layerPointToLatLng before it
CellOf(ops, j) ==
  ops[CHOOSE c \in 1..j :
        /\ ops[c].op = "layerPointToLatLng"
        /\ \A c2 \in (c + 1)..j : ops[c2].op # "layerPointToLatLng"]

\* C13: every index the fill loops write lies in [0, width * height * 4)
\* and addresses a pixel of the cell being filled with x < width and
\* y < height: at the right and bottom edges the cell is cut, no write goes
\* into the next row or past the end of the buffer.
C13_EdgeClamped ==
  (Rendering /\ ~last.run.threw) =>
    \A j \in 1..Len(last.run.ops) :
      last.run.ops[j].op = "set" =>
        /\ last.run.ops[j].a >= 0
        /\ last.run.ops[j].a < last.run.width * last.run.height * 4
        /\ (last.run.ops[j].a \div 4) % last.run.width
             \in CellOf(last.run.ops, j).a..(CellOf(last.run.ops, j).a + step - 1)
        /\ (last.run.ops[j].a \div 4) \div last.run.width
             \in CellOf(last.run.ops, j).b..(CellOf(last.run.ops, j).b + step - 1)

\* a buffer whose width and height are not multiples of step: its last
\* column and its last row are cut cells
C13_Witness ==
  /\ Rendering
  /\ ~last.run.threw
  /\ last.run.width % step # 0
  /\ last.run.height % step # 0
  /\ last.run.width > step
  /\ \E j \in 1..Len(last.run.ops) :
       /\ last.run.ops[j].op = "set"
       /\ last.run.ops[j].a = last.run.width * last.run.height * 4 - 1

\* C14: a render of the mounted overlay sizes the canvas and creates its
\* buffer at the client size the canvas has when the render starts: after
\* a resize the buffer has the new width and height; the buffer is created
\* in the render that fills and blits it, before the first write.
C14_BufferMatchesViewport ==
  (Rendering /\ mounted = last.i) =>
    /\ last.run.width = viewW
    /\ last.run.height = viewH
    /\ last.run.ops[2] = Op("size", viewW, viewH)
    /\ ~last.run.threw =>
         /\ Count(last.run.ops, "createImageData") = 1
         /\ last.run.ops[4] = Op("createImageData", viewW, viewH)
         /\ Len(last.run.image) = viewW * viewH * 4
         /\ \A j \in 1..4 : last.run.ops[j].op \notin {"set", "putImageData"}

\* a render on the resize notification of a mounted overlay laid out
\* 1 x 3, after the render of its mount
C14_Witness ==
  /\ last.h = "resize"
  /\ mounted = last.i
  /\ Attached(last.i)
  /\ ~last.run.threw
  /\ viewW = 1
  /\ viewH = 3
  /\ Len(last.run.image) = 12

\* the positions in ops of the calls of map.layerPointToLatLng
Projections(ops) == {j \in 1..Len(ops) : ops[j].op = "layerPointToLatLng"}

\* ceil(a / b), b > 0
CeilDiv(a, b) == (a + b - 1) \div b

\* C15: a render that drew calls map.layerPointToLatLng only for the
\* top-left pixel of a cell, (x, y) with x and y multiples of step,
\* 0 <= x < width and 0 <= y < height, and once for each:
\* ceil(width / step) * ceil(height / step) calls in all.
C15_ProjectionPerCell ==
  (Rendering /\ ~last.run.threw) =>
    /\ \A j \in Projections(last.run.ops) :
         /\ last.run.ops[j].a % step = 0
         /\ last.run.ops[j].b % step = 0
         /\ last.run.ops[j].a \in 0..(last.run.width - 1)
         /\ last.run.ops[j].b \in 0..(last.run.height - 1)
         /\ \A j2 \in Projections(last.run.ops) :
              (last.run.ops[j2].a = last.run.ops[j].a
                 /\ last.run.ops[j2].b = last.run.ops[j].b) => j2 = j
    /\ Cardinality(Projections(last.run.ops))
         = CeilDiv(last.run.width, step) * CeilDiv(last.run.height, step)

\* a 3 x 3 render: four cells, four calls, the last one for pixel (2, 2)
C15_Witness ==
  /\ Rendering
  /\ ~last.run.threw
  /\ last.run.width = 3
  /\ last.run.height = 3
  /\ Cardinality(Projections(last.run.ops)) = 4
  /\ \E j \in Projections(last.run.ops) :
       last.run.ops[j].a = 2 /\ last.run.ops[j].b = 2

\* getSubsolarPoint has returned
Computed == call.fn = "getSubsolarPoint" /\ call.done

RaOf(t) ==
  RightAscension(Obliquity(t), EclipticLongitude(MeanLongitude(t), MeanAnomaly(t)))

\* C17: for every date the right ascension lies in [0, 360) and the
\* longitude returned differs from right ascension - GMST by a multiple of
\* 360, also before J2000, where d and the remainders of % are negative.
C17_LonCongruent ==
  Computed =>
    /\ RaOf(call.date) >= 0
    /\ RaOf(call.date) < 36000
    /\ (call.subsolar.lon - (RaOf(call.date) - GMST(call.date))) % 36000 = 0

\* a date before J2000 with negative mean longitude and GMST, whose atan2
\* was negative and whose remainder was above 180 and brought down by 360
C17_Witness ==
  /\ Computed
  /\ call.date < 0
  /\ MeanLongitude(call.date) < 0
  /\ GMST(call.date) < 0
  /\ RaOf(call.date) >= 18000
  /\ JsMod(RaOf(call.date) - GMST(call.date), 36000) > 18000
  /\ call.subsolar.lon = JsMod(RaOf(call.date) - GMST(call.date), 36000) - 36000

\* sinDec of line 30 for the date of the call, scaled by TrigScale
SinDecOf(t) ==
  DivR(SinC(Obliquity(t))
         * SinC(EclipticLongitude(MeanLongitude(t), MeanAnomaly(t))), TrigScale)

\* C18: for every date the latitude getSubsolarPoint returns lies in
\* [-90, 90]: the argument of asin lies in [-1, 1], so the latitude is a
\* number, and it is the declination.
C18_LatInRange ==
  Computed =>
    /\ call.subsolar.lat >= -9000
    /\ call.subsolar.lat <= 9000
    /\ SinDecOf(call.date) \in (-TrigScale)..TrigScale
    /\ call.subsolar.lat = AsinC(SinDecOf(call.date))

\* dates near the two solstices, before and after J2000, where the latitude
\* is furthest from the equator
C18_Witness ==
  /\ Computed
  /\ \/ call.date < 0 /\ call.subsolar.lat < -2300
     \/ call.date > 0 /\ call.subsolar.lat > 2300

\* the sample has been classified
Sampled == call.fn = "sample" /\ call.done

\* sin(latObs) * sin(latSun) + cos(latObs) * cos(latSun) * cos(lonObs - lonSun)
\* for the sample of the call, as Math.sin and Math.cos give it, scaled by
\* 2 * TrigScale * TrigScale
CosOfDistance ==
  WithResidue(SinC(call.latlng.lat) * SinC(call.subsolar.lat),
              DivR(CosC(call.latlng.lat) * CosC(call.subsolar.lat), TrigScale)
                * CosC(call.latlng.lng - call.subsolar.lon),
              CosSign(call.latlng.lat) * CosSign(call.subsolar.lat)
                * CosSign(call.latlng.lng - call.subsolar.lon))

C20_SubsolarDayAntipodeNight ==
  Sampled =>
    /\ call.latlng = At(call.subsolar) => (call.isDay /\ call.alpha = 0)
    /\ call.latlng = Antipode(call.subsolar) => (~call.isDay /\ call.alpha = 90)

\* subsolar point (0, 0) and a sample at (0, 180): night
C20_Witness ==
  /\ Sampled
  /\ call.subsolar = [lat |-> 0, lon |-> 0]
  /\ call.latlng = [lat |-> 0, lng |-> 18000]
  /\ call.latlng = Antipode(call.subsolar)
  /\ call.alpha = 90

\* C21: with the subsolar point at (0, 0) a point (0, lon) of the equator,
\* -180 <= lon <= 180, is day exactly when |lon| < 90: (0, 89) is day,
\* (0, 91) is night, and at (0, 90) the cosine is 0 and the point is not day.
C21_EquatorBoundary ==
  (Sampled /\ call.subsolar = [lat |-> 0, lon |-> 0] /\ call.latlng.lat = 0
     /\ Abs(call.latlng.lng) <= 18000) =>
    /\ call.isDay <=> Abs(call.latlng.lng) < 9000
    /\ Abs(call.latlng.lng) = 9000 => CosOfDistance = 0

\* what a render may do: operations on the canvas and its buffer, and of
\* the map only the inverse projection, which changes nothing
NonMutating ==
  {"render", "size", "clearRect", "createImageData", "set", "putImageData",
   "layerPointToLatLng", "throw"}

\* C22: a render does not change the viewport of the host: all it does to
\* the map is call layerPointToLatLng, it reads the client size once, and
\* after a render on a tick the view and the size of the map are what they
\* were before.
C22_ViewportUntouched ==
  [][(last' # last /\ Count(last'.run.ops, "render") > 0) =>
       /\ \A j \in 1..Len(last'.run.ops) : last'.run.ops[j].op \in NonMutating
       /\ Count(last'.run.ops, "size") = 1
       /\ last'.h = "tick" =>
            (view' = view /\ viewW' = viewW /\ viewH' = viewH)]_vars

\* a tick that drew on a map the host had moved to view 1 and resized to
\* the largest size
C22_Witness ==
  /\ last.h = "tick"
  /\ ~last.run.threw
  /\ view = 1
  /\ viewW = MaxW
  /\ viewH = MaxH
  /\ last.run.width = MaxW

\* C23: at a June solstice the latitude getSubsolarPoint returns is within
\* 0.5 degrees of +23.44, at a December solstice within 0.5 degrees of
\* -23.44.
C23_SolsticeLatitude ==
  Computed =>
    /\ call.date \in JuneSolstices => Abs(call.subsolar.lat - 2344) <= 50
    /\ call.date \in DecemberSolstices => Abs(call.subsolar.lat + 2344) <= 50

\* the December solstice of 1999, before J2000, with a latitude in the south
C23_Witness ==
  /\ Computed
  /\ call.date = DecemberSolstice2000 - TropicalYear
  /\ call.date < 0
  /\ call.subsolar.lat < -2294

\* the instances that hold an armed interval, a subscribed handler, a
\* canvas in the overlay pane, a map that is not removed
Timers == {i \in Instances : inst[i].timer > 0}
Handlers == {i \in Instances : inst[i].handler}
Canvases == {i \in Instances : inst[i].inPane}
Maps == {i \in Instances : inst[i].mapLive}

\* C24: once the effect of an instance has returned or aborted, its
\* interval is armed if and only if its handler is subscribed, if and only
\* if its canvas is in the overlay pane, and when they are held the cleanup
\* that releases them is registered.
C24_ResourcesTogether ==
  \A i \in Instances :
    inst[i].phase # "none" =>
      /\ (i \in Timers) <=> (i \in Handlers)
      /\ (i \in Handlers) <=> (i \in Canvases)
      /\ (i \in Handlers) => inst[i].cleanup

\* C25: after any mounts and unmounts the armed intervals, the subscribed
\* handlers, the canvases in a pane and the live maps are each as many as
\* the mounted instances, 0 or 1.
C25_NothingAccumulates ==
  /\ Cardinality(Timers) = (IF mounted = 0 THEN 0 ELSE 1)
  /\ Cardinality(Handlers) = (IF mounted = 0 THEN 0 ELSE 1)
  /\ Cardinality(Canvases) = (IF mounted = 0 THEN 0 ELSE 1)
  /\ Cardinality(Maps) = (IF mounted = 0 THEN 0 ELSE 1)

C27_OverlayFollowsGate ==
  /\ (mounted # 0) <=> hasSunlightOverlay
  /\ ~hasSunlightOverlay => (Maps = {} /\ Timers = {} /\ Canvases = {})
  /\ \A i \in Instances : (Attached(i) \/ Detached(i)) => (mounted = i <=> Attached(i))

\* the timezones of the list, one per entry
Timezones == [k \in 1..Len(board.clocks) |-> board.clocks[k].timezone]

\* C28: after any sequence of clicks and timeouts from the three presets,
\* no two entries of clocks share a timezone and every entry's timezone is
\* the value of an entry of TIME_ZONES.
C28_NoDuplicateTimezone ==
  /\ \A j, k \in 1..Len(board.clocks) :
       Timezones[j] = Timezones[k] => j = k
  /\ \A k \in 1..Len(board.clocks) : FindZone(Timezones[k]) # {}

\* C29: the list is never empty, and a click on a remove button takes out
\* one entry, the one with that id, and leaves the others in their order.
C29_RemovesExactlyOne ==
  /\ [](Len(board.clocks) >= 1)
  /\ [][\A id \in Ids : ClickRemove(id) =>
          \E k \in 1..Len(board.clocks) :
            /\ board.clocks[k].id = id
            /\ board'.clocks =
                 SubSeq(board.clocks, 1, k - 1)
                   \o SubSeq(board.clocks, k + 1, Len(board.clocks))]_vars

\* a click on "Add <city>" for this zone, made while the list had no clock
\* for it, is waiting for its timeout
QuickAddPending(tz) ==
  \E k \in 1..Len(board.timeouts) :
    /\ board.timeouts[k].timezone = tz.value
    /\ ~HasTimezone(board.timeouts[k].clocks, tz.value)

\* C30: a click on "Add <city>" for a city that is not in the list leads to
\* a list with a clock for that city, the addClock() of its timeout reading
\* the timezone that the click has set.
C30_QuickAddAppends ==
  /\ \A tz \in PopularCities :
       QuickAddPending(tz) ~> HasTimezone(board.clocks, tz.value)
  /\ [][TimeoutFire =>
          Head(board.timeouts).selectedTimezone
            = Head(board.timeouts).timezone]_vars

=============================================================================
